---- MODULE Spec2Model ----
(***************************************************************************)
(* caltech_holidays.py: scrape the holiday-observances page, extract the   *)
(* (date, description) records of every yearly table, build one calendar   *)
(* event per record and merge the new ones into a persistent calendar.     *)
(*                                                                         *)
(* The parsed page (lxml) and the network are inputs: every heading, the   *)
(* siblings walked after it, and every table row are drawn from small      *)
(* sets at the step of the code that reads them.  The calendar file is     *)
(* state: it survives from one run of main() to the next.                  *)
(***************************************************************************)
EXTENDS Integers, Sequences, FiniteSets, TLC

\* ------------------------------------------------------------------ bounds
\* h3 headings in one page
MaxHeaders == 2
\* body rows in one page, over all its tables
MaxRows == 3
\* siblings that follow a heading's section
MaxSiblings == 2
\* events in the calendar file before the first run
MaxStored == 2

\* --------------------------------------------------------------- constants
ERROR_GET_PAGE_FAILED == 1
ERROR_PARSE_FAILED == 2
ERROR_NO_EVENTS == 3
ERROR_UNKNOWN == 255
\* main()'s "return 0"
SUCCESS == 0

\* ------------------------------------------------------------------- dates
IsLeap(y) == (y % 4 = 0 /\ y % 100 # 0) \/ y % 400 = 0

DaysInMonth(y, m) ==
    IF m = 2 THEN (IF IsLeap(y) THEN 29 ELSE 28)
    ELSE IF m \in {4, 6, 9, 11} THEN 30 ELSE 31

\* datetime.date(y, m, d) exists
ValidDate(y, m, d) == m \in 1..12 /\ d >= 1 /\ d <= DaysInMonth(y, m)

\* event_date + timedelta(days=1)
NextDay(dt) ==
    IF dt.d < DaysInMonth(dt.y, dt.m) THEN [y |-> dt.y, m |-> dt.m, d |-> dt.d + 1]
    ELSE IF dt.m < 12 THEN [y |-> dt.y, m |-> dt.m + 1, d |-> 1]
    ELSE [y |-> dt.y + 1, m |-> 1, d |-> 1]

Digit == <<"0", "1", "2", "3", "4", "5", "6", "7", "8", "9">>
D2(n) == Digit[((n \div 10) % 10) + 1] \o Digit[(n % 10) + 1]
D4(n) == D2(n \div 100) \o D2(n % 100)

\* date.isoformat(): "YYYY-MM-DD"
isoformat(dt) == D4(dt.y) \o "-" \o D2(dt.m) \o "-" \o D2(dt.d)

\* %B: the full month names the rows use
MonthNumber(name) ==
    CASE name = "January" -> 1
      [] name = "February" -> 2
      [] name = "December" -> 12
      [] OTHER -> 0

\* %Y: exactly four digits
YearNumber(s) ==
    CASE s = "2024" -> 2024
      [] s = "2025" -> 2025
      [] OTHER -> 0

NoDate == [y |-> 0, m |-> 0, d |-> 0]

\* A day specifier (the text of a row's third cell) is kept in its parts:
\*   form "MD"    "January 1"
\*   form "MDY"   "January 1, 2025"
\*   form "dash"  "-"            (starts with '-')
\*   form "text"  "TBD"          (anything else)
DaySpec(form, month, day, yr) == [form |-> form, month |-> month, day |-> day, yr |-> yr]

\* datetime.strptime(day, "%B %d, %Y").date(): [ok, date]; ~ok is ValueError
strptime_BdY(day) ==
    IF day.form = "MDY" /\ YearNumber(day.yr) # 0
       /\ ValidDate(YearNumber(day.yr), MonthNumber(day.month), day.day)
    THEN [ok |-> TRUE, date |-> [y |-> YearNumber(day.yr), m |-> MonthNumber(day.month), d |-> day.day]]
    ELSE [ok |-> FALSE, date |-> NoDate]

\* datetime.strptime(year + ' ' + day, '%Y %B %d').date()
strptime_YBd(year, day) ==
    IF day.form = "MD" /\ YearNumber(year) # 0
       /\ ValidDate(YearNumber(year), MonthNumber(day.month), day.day)
    THEN [ok |-> TRUE, date |-> [y |-> YearNumber(year), m |-> MonthNumber(day.month), d |-> day.day]]
    ELSE [ok |-> FALSE, date |-> NoDate]

\* get_table_entries putting every date in the section's year, the year a
\* row gives dropped
parse_day_in_section_year(year, day) ==
    IF day.form \in {"MD", "MDY"} /\ YearNumber(year) # 0
       /\ ValidDate(YearNumber(year), MonthNumber(day.month), day.day)
    THEN [ok |-> TRUE, date |-> [y |-> YearNumber(year), m |-> MonthNumber(day.month), d |-> day.day]]
    ELSE [ok |-> FALSE, date |-> NoDate]

\* the try/except of get_table_entries: the explicit year first, then the
\* section's year; ~ok is the ValueError of the second strptime
parse_day(year, day) ==
    IF strptime_BdY(day).ok THEN strptime_BdY(day) ELSE strptime_YBd(year, day)

\* ------------------------------------------------------------------ events
\* hashlib.sha256(body).hexdigest(): a function of the body with no collisions
\* among the bodies of the model
sha256_hexdigest(body) == "sha256:" \o body

make_uid(event_date, description) ==
    sha256_hexdigest(isoformat(event_date) \o description)

\* A calendar component.  has_uid is has_key("UID").
make_event(event_date, description, dtstamp) ==
    [has_uid |-> TRUE,
     UID     |-> make_uid(event_date, description),
     DTSTART |-> event_date,
     DTEND   |-> NextDay(event_date),
     DTSTAMP |-> dtstamp,
     SUMMARY |-> description]

\* get_event_uid returning the stored UID field instead of recomputing it
get_event_uid_stored(event) == event.UID

\* get_event_uid hashing the stamp as well (the older uid scheme)
get_event_uid_stamped(event) ==
    sha256_hexdigest(isoformat(event.DTSTART) \o event.SUMMARY \o D2(event.DTSTAMP))

\* the uid recomputed from the stored start date and summary; the stored UID is
\* only compared (a warning), never returned
get_event_uid(event) == make_uid(event.DTSTART, event.SUMMARY)

\* the warning branch of get_event_uid
uid_is_wrong(event) == event.UID # make_uid(event.DTSTART, event.SUMMARY)

\* cal.walk() yields the calendar itself (no UID) and its subcomponents
get_known_event_uids(c) ==
    {get_event_uid(c.subcomponents[i]) :
        i \in {j \in 1..Len(c.subcomponents) : c.subcomponents[j].has_uid}}

\* Component.add_component: append to subcomponents
add_component(c, event) ==
    [c EXCEPT !.subcomponents = Append(c.subcomponents, event)]

\* add_unique_event without the membership test
add_unique_event_always(c, event) == [c EXCEPT !.subcomponents = Append(c.subcomponents, event)]

\* add_unique_event inserting the new event in front of the existing ones
add_unique_event_in_front(c, event) ==
    IF make_uid(event.DTSTART, event.SUMMARY) \notin
         {make_uid(c.subcomponents[i].DTSTART, c.subcomponents[i].SUMMARY) :
             i \in {j \in 1..Len(c.subcomponents) : c.subcomponents[j].has_uid}}
    THEN [c EXCEPT !.subcomponents = <<event>> \o c.subcomponents]
    ELSE c

\* the calendar after add_unique_event(cal, event), which mutates cal in place
add_unique_event(c, event) ==
    IF get_event_uid(event) \notin get_known_event_uids(c)
    THEN add_component(c, event)
    ELSE c

\* add_unique_event with "return True" after the insertion and "return False"
\* otherwise
add_unique_event_value_bool(c, event) ==
    IF make_uid(event.DTSTART, event.SUMMARY) \notin
         {make_uid(c.subcomponents[i].DTSTART, c.subcomponents[i].SUMMARY) :
             i \in {j \in 1..Len(c.subcomponents) : c.subcomponents[j].has_uid}}
    THEN "True"
    ELSE "False"

\* what the call add_unique_event(cal, event) evaluates to: the function has no
\* return statement
add_unique_event_value(c, event) == "None"

\* Calendar() with the two metadata fields
NewCalendar ==
    [version |-> "2.0", prodid |-> "ghic.org:caltech_holiday.py", subcomponents |-> <<>>]

\* The file: exists, and the calendar Calendar.from_ical reads from it (what
\* cal.to_ical() wrote, or what was there before the first run).
NoFile == [exists |-> FALSE, cal |-> NewCalendar]

create_or_load_icalendar(f) == IF f.exists THEN f.cal ELSE NewCalendar

\* main writing the file whatever --dry-run says
main_write_always(f, c, a) == [opened |-> TRUE, file |-> [exists |-> TRUE, cal |-> c]]

\* open(args.icalendar, 'wb').write(cal.to_ical()) unless --dry-run: whether
\* the file was opened for writing, and the file afterwards
main_write(f, c, a) ==
    IF ~a.dry_run
    THEN [opened |-> TRUE, file |-> [exists |-> TRUE, cal |-> c]]
    ELSE [opened |-> FALSE, file |-> f]

\* print(display(cal)) with --display
main_display(c, a) == IF a.display THEN <<c.subcomponents>> ELSE <<>>

\* main without the event_count test
main_status_always_success(count) == SUCCESS

\* the value main returns after the loop
main_status(count) == IF count = 0 THEN ERROR_NO_EVENTS ELSE SUCCESS

\* ------------------------------------------------------------------ inputs
\* Last-Modified times and datetime.now()
Stamps == {1, 2}

Prefix == "Caltech Holiday Observances for "

\* heading texts, stripped: the leading len(Prefix) characters and the rest
HeadingTexts ==
    {[lead |-> Prefix, tail |-> "2024"],
     [lead |-> Prefix, tail |-> "2025"],
     [lead |-> Prefix, tail |-> "next year"],
     [lead |-> "Other Observances in the year ", tail |-> "2024"]}

\* header[-4:] of the texts above
Last4(h) == IF h.tail = "next year" THEN "year" ELSE h.tail

NoneYear == "None"

get_year_from_header(h) ==
    IF h.lead # Prefix THEN NoneYear ELSE Last4(h)

\* the nodes that follow a heading's section: their class attribute and the
\* number of tables '*/table' finds in them
Nodes ==
    {[class |-> "block-TableBlock", tables |-> 0],
     [class |-> "block-TableBlock", tables |-> 1],
     [class |-> "block-TableBlock", tables |-> 2],
     [class |-> "block-RichTextBlock", tables |-> 0]}

RECURSIVE SeqsUpTo(_, _)
SeqsUpTo(S, n) ==
    IF n = 0 THEN {<<>>}
    ELSE LET shorter == SeqsUpTo(S, n - 1)
         IN shorter \cup {Append(q, x) : q \in {r \in shorter : Len(r) = n - 1}, x \in S}

Siblings == SeqsUpTo(Nodes, MaxSiblings)

\* the while loop of get_table_from_header: "table" (tables[0]), "assert"
\* (AssertionError: page layout changed) or "None" (the walk ran off the end)
RECURSIVE get_table_from_header(_)
get_table_from_header(siblings) ==
    IF siblings = <<>> THEN "None"
    ELSE IF Head(siblings).class = "block-TableBlock"
         THEN (IF Head(siblings).tables = 1 THEN "table" ELSE "assert")
         ELSE get_table_from_header(Tail(siblings))

\* what get_table_from_header gives over the pages of the model
Walks == {get_table_from_header(siblings) : siblings \in Siblings}

\* table rows: the number of cells, record[2] and record[3] stripped
Rows ==
    {[cells |-> 4, day |-> DaySpec("MD", "January", 1, ""), description |-> "New Year's Day"],
     [cells |-> 4, day |-> DaySpec("MDY", "January", 1, "2025"), description |-> "New Year's Day"],
     [cells |-> 4, day |-> DaySpec("dash", "", 0, ""), description |-> "Personal Holiday"],
     [cells |-> 4, day |-> DaySpec("dash", "", 0, ""), description |-> "Floating Holiday"],
     [cells |-> 4, day |-> DaySpec("text", "", 0, ""), description |-> "Founders Day"],
     [cells |-> 3, day |-> DaySpec("MD", "January", 1, ""), description |-> "New Year's Day"]}

NoRow == [cells |-> 0, day |-> DaySpec("text", "", 0, ""), description |-> ""]
NoHeading == [lead |-> "", tail |-> ""]

\* get_table_entries without the len(record) == 4 test: record[3] of a
\* shorter row raises (IndexError)
get_table_entries_row_unchecked(yr, r) ==
    IF r.cells < 4
    THEN [kind |-> "raise", date |-> NoDate, description |-> ""]
    ELSE IF r.day.form # "dash"
         THEN IF parse_day(yr, r.day).ok
              THEN [kind |-> "yield", date |-> parse_day(yr, r.day).date, description |-> r.description]
              ELSE [kind |-> "raise", date |-> NoDate, description |-> ""]
         ELSE [kind |-> "skip", date |-> NoDate, description |-> ""]

\* one pass of the for loop of get_table_entries over a row:
\* "yield" (with the Holiday), "skip", or "raise" (ValueError)
get_table_entries_row(yr, r) ==
    IF r.cells = 4
    THEN IF r.day.form # "dash"
         THEN IF parse_day(yr, r.day).ok
              THEN [kind |-> "yield", date |-> parse_day(yr, r.day).date, description |-> r.description]
              ELSE [kind |-> "raise", date |-> NoDate, description |-> ""]
         ELSE [kind |-> "skip", date |-> NoDate, description |-> ""]
    ELSE [kind |-> "skip", date |-> NoDate, description |-> ""]

\* events a calendar file may hold before the first run: written by an earlier
\* run, written under an older uid scheme (the stored UID is stale), or
\* without a UID
StoredEvents ==
    LET e == make_event([y |-> 2024, m |-> 1, d |-> 1], "New Year's Day", 1)
    IN {e, [e EXCEPT !.UID = "8f783bd2c4ac4ffd"], [e EXCEPT !.has_uid = FALSE, !.UID = ""]}

StoredFiles ==
    {NoFile} \cup
    {[exists |-> TRUE, cal |-> [NewCalendar EXCEPT !.subcomponents = q]] :
        q \in SeqsUpTo(StoredEvents, MaxStored)}

\* urlopen: the exception it raises, if any, and the response status
Network ==
    {[raises |-> "", status |-> 200],
     [raises |-> "", status |-> 204],
     [raises |-> "HTTPError", status |-> 404],
     [raises |-> "URLError", status |-> 0]}

\* "response", "None" (HTTPError caught), or "raise": URLError is not caught,
\* and on a status other than 200 the error message reads request.status,
\* which a urllib Request does not have (AttributeError)
request_holiday_page(net) ==
    IF net.raises = "HTTPError" THEN "None"
    ELSE IF net.raises # "" THEN "raise"
    ELSE IF net.status # 200 THEN "raise"
    ELSE "response"

\* request.headers['Last-Modified']: absent (None), or a string that
\* '%a, %d %b %Y %H:%M:%S %Z' parses to time, or one it does not parse
LastModified ==
    {[present |-> FALSE, parses |-> FALSE, time |-> 0]} \cup
    {[present |-> TRUE, parses |-> TRUE, time |-> t] : t \in Stamps} \cup
    {[present |-> TRUE, parses |-> FALSE, time |-> 0]}

\* [kind, time]: "datetime", or "raise" (ValueError); never "None"
parse_last_modified(header, now) ==
    IF ~header.present THEN [kind |-> "datetime", time |-> now]
    ELSE IF header.parses THEN [kind |-> "datetime", time |-> header.time]
    ELSE [kind |-> "raise", time |-> 0]

Args == [dry_run : BOOLEAN, display : BOOLEAN]

\* ------------------------------------------------------------------- state
VARIABLES
    pc,           \* where main() is: "fetch", "timestamp", "load", "headers",
                  \* "rows", "finish", "exit"
    args,         \* parser.parse_args(): dry_run, display; drawn where main
                  \* first reads them (line 54), unset (both off) before
    dtstamp,      \* main's dtstamp (0 before it is set)
    file,         \* the calendar file args.icalendar
    cal,          \* main's cal, the accumulator
    hi,           \* get_calendar_entries: headings consumed
    h,            \* get_calendar_entries: the current heading's text
    year,         \* get_calendar_entries: year
    ri,           \* history: rows the running extraction has consumed
    row,          \* get_table_entries: the current row
    rec,          \* main: the loop variables date, description
    ret,          \* the value of the last add_unique_event call ("" before one)
    event_count,  \* main's event_count
    status,       \* <<>> while running, <<code>> once main returned or raised
    stdout,       \* what --display printed
    dated,        \* history: well-formed dated rows consumed in this run
    writes,       \* history: writes of the file in this run
    file0         \* history: the file when this run started

vars == <<pc, args, dtstamp, file, cal, hi, h, year, ri, row, rec, ret,
          event_count, status, stdout, dated, writes, file0>>

NoRec == [date |-> NoDate, description |-> ""]

\* a fresh process: nothing of an earlier run but the file
StartOfRun ==
    /\ pc = "fetch"
    /\ args = [dry_run |-> FALSE, display |-> FALSE]
    /\ dtstamp = 0
    /\ cal = NewCalendar
    /\ hi = 0
    /\ h = NoHeading
    /\ year = NoneYear
    /\ ri = 0
    /\ row = NoRow
    /\ rec = NoRec
    /\ ret = ""
    /\ event_count = 0
    /\ status = <<>>
    /\ stdout = <<>>
    /\ dated = 0
    /\ writes = 0

Init ==
    /\ file \in StoredFiles
    /\ file0 = file
    /\ StartOfRun

parser == <<hi, h, year, ri, row, dated>>
loopvars == <<rec, ret, event_count, cal>>

\* an exception leaves main: "__main__" logs it and exits ERROR_UNKNOWN
Raise ==
    /\ pc' = "exit"
    /\ status' = <<ERROR_UNKNOWN>>

\* main, lines 25-38: parse the arguments and request the page
main_fetch ==
    /\ pc = "fetch"
    /\ \E net \in Network :
        /\ CASE request_holiday_page(net) = "None" ->
                    pc' = "exit" /\ status' = <<ERROR_GET_PAGE_FAILED>>
             [] request_holiday_page(net) = "raise" -> Raise
             [] OTHER -> pc' = "timestamp" /\ status' = status
    /\ UNCHANGED <<args, dtstamp, file, parser, loopvars, stdout, writes, file0>>

\* main, lines 40-43
main_timestamp ==
    /\ pc = "timestamp"
    /\ \E header \in LastModified, now \in Stamps :
        LET r == parse_last_modified(header, now)
        IN CASE r.kind = "raise" -> Raise /\ dtstamp' = dtstamp
             [] r.kind = "None" ->
                    pc' = "exit" /\ status' = <<ERROR_PARSE_FAILED>> /\ dtstamp' = dtstamp
             [] OTHER -> pc' = "load" /\ status' = status /\ dtstamp' = r.time
    /\ UNCHANGED <<args, file, parser, loopvars, stdout, writes, file0>>

\* main, lines 45-49: parse the page, load or create the calendar
main_load ==
    /\ pc = "load"
    /\ cal' = create_or_load_icalendar(file)
    /\ pc' = "headers"
    /\ UNCHANGED <<args, dtstamp, file, parser, rec, ret, event_count, status,
                   stdout, writes, file0>>

\* get_calendar_entries, lines 89-96: the next heading
headers_next ==
    /\ pc = "headers"
    /\ hi < MaxHeaders
    /\ \E text \in HeadingTexts, table \in Walks :
        /\ hi' = hi + 1
        /\ h' = text
        /\ year' = get_year_from_header(text)
        /\ IF get_year_from_header(text) = NoneYear
           THEN pc' = "headers" /\ status' = status
           ELSE IF table = "table"
                THEN pc' = "rows" /\ status' = status
                ELSE Raise
    /\ row' = NoRow
    /\ UNCHANGED <<args, dtstamp, file, ri, loopvars, stdout, dated, writes, file0>>

\* get_calendar_entries: no heading is left, the generator returns (its locals
\* are gone) and the for loop of main ends
headers_end ==
    /\ pc = "headers"
    /\ pc' = "finish"
    /\ hi' = 0
    /\ h' = NoHeading
    /\ year' = NoneYear
    /\ ri' = 0
    /\ row' = NoRow
    /\ UNCHANGED <<args, dtstamp, file, dated, loopvars, status, stdout, writes, file0>>

\* (for the history variable dated) a well-formed dated row: four cells, a day specifier that is a real date
\* either with its own year or in the section's year
WellFormedDated(yr, r) ==
    /\ r.cells = 4
    /\ \/ /\ r.day.form = "MDY"
          /\ YearNumber(r.day.yr) # 0
          /\ ValidDate(YearNumber(r.day.yr), MonthNumber(r.day.month), r.day.day)
       \/ /\ r.day.form = "MD"
          /\ YearNumber(yr) # 0
          /\ ValidDate(YearNumber(yr), MonthNumber(r.day.month), r.day.day)

\* get_table_entries, lines 120-137, and for a yielded Holiday the body of
\* main's loop, lines 51-52
rows_next ==
    /\ pc = "rows"
    /\ ri < MaxRows
    /\ \E r \in Rows :
        LET out == get_table_entries_row(year, r)
            event == make_event(out.date, out.description, dtstamp)
        IN /\ ri' = ri + 1
           /\ row' = r
           /\ dated' = IF WellFormedDated(year, r) THEN dated + 1 ELSE dated
           /\ CASE out.kind = "raise" -> Raise /\ UNCHANGED loopvars
                [] out.kind = "skip" ->
                       pc' = "rows" /\ status' = status /\ UNCHANGED loopvars
                [] OTHER ->
                       /\ pc' = "rows"
                       /\ status' = status
                       /\ rec' = [date |-> out.date, description |-> out.description]
                       /\ event_count' = event_count + 1
                       /\ cal' = add_unique_event(cal, event)
                       /\ ret' = add_unique_event_value(cal, event)
    /\ UNCHANGED <<args, dtstamp, file, hi, h, year, stdout, writes, file0>>

\* get_table_entries: no row is left; row, h and year are dead from here (the
\* next heading overwrites them before they are read)
rows_end ==
    /\ pc = "rows"
    /\ pc' = "headers"
    /\ row' = NoRow
    /\ h' = NoHeading
    /\ year' = NoneYear
    /\ UNCHANGED <<args, dtstamp, file, hi, ri, dated, loopvars, status,
                   stdout, writes, file0>>

\* main, lines 54-65: write, display, return
main_finish ==
    /\ pc = "finish"
    /\ \E a \in Args :
        /\ args' = a
        /\ file' = main_write(file, cal, a).file
        /\ writes' = IF main_write(file, cal, a).opened THEN writes + 1 ELSE writes
        /\ stdout' = main_display(cal, a)
    /\ status' = <<main_status(event_count)>>
    /\ pc' = "exit"
    /\ UNCHANGED <<dtstamp, parser, loopvars, file0>>

\* the tool is run again on the file the earlier runs left
run_again ==
    /\ pc = "exit"
    /\ file0' = file
    /\ file' = file
    /\ pc' = "fetch"
    /\ args' = [dry_run |-> FALSE, display |-> FALSE]
    /\ dtstamp' = 0
    /\ cal' = NewCalendar
    /\ hi' = 0
    /\ h' = NoHeading
    /\ year' = NoneYear
    /\ ri' = 0
    /\ row' = NoRow
    /\ rec' = NoRec
    /\ ret' = ""
    /\ event_count' = 0
    /\ status' = <<>>
    /\ stdout' = <<>>
    /\ dated' = 0
    /\ writes' = 0

Next ==
    \/ main_fetch
    \/ main_timestamp
    \/ main_load
    \/ headers_next
    \/ headers_end
    \/ rows_next
    \/ rows_end
    \/ main_finish
    \/ run_again

Spec == Init /\ [][Next]_vars

\* ---------------------------------------------------------------- notions
\* the (date, description) identity of an event
Identity(e) == <<e.DTSTART, e.SUMMARY>>

NoTwoAlike(c) ==
    \A i, j \in 1..Len(c.subcomponents) :
        i # j => Identity(c.subcomponents[i]) # Identity(c.subcomponents[j])

\* the calendar this run loaded or created (the file is not written before
\* the end of the run)
Loaded == create_or_load_icalendar(file0)

\* main has its accumulator
HasLoaded == pc \in {"headers", "rows", "finish"} \/ (pc = "exit" /\ dtstamp # 0)

\* this step is one pass of main's loop body: add_unique_event was called with
\* the event built from rec'
Merged == event_count' = event_count + 1

\* an event of c that carries a UID and has the identity of record r
Known(c, r) ==
    \E i \in 1..Len(c.subcomponents) :
        /\ c.subcomponents[i].has_uid
        /\ Identity(c.subcomponents[i]) = <<r.date, r.description>>

IsPrefix(p, q) == Len(p) <= Len(q) /\ SubSeq(q, 1, Len(p)) = p

\* ------------------------------------------------------------------ claims

\* C1, as stated: once add_unique_event has been called in a run, the
\* accumulator, loaded from storage or freshly created, holds no two events
\* with the same (date, description).
C1_NoTwoAlikeAfterMerging ==
    (HasLoaded /\ event_count >= 1) => NoTwoAlike(cal)

\* the accumulator started without two events alike, each carrying a UID
CleanStart ==
    /\ NoTwoAlike(Loaded)
    /\ \A i \in 1..Len(Loaded.subcomponents) : Loaded.subcomponents[i].has_uid

\* C1, amended: a run whose accumulator starts with no two events of the same
\* (date, description), every event carrying a UID (a fresh calendar does),
\* never holds two events alike, however often records repeat; merged into a
\* fresh calendar, n records leave between 1 and n events.
C1_NoTwoAlikeFromCleanStart ==
    (HasLoaded /\ CleanStart) =>
        /\ NoTwoAlike(cal)
        /\ (~file0.exists /\ event_count >= 1) =>
              (Len(cal.subcomponents) >= 1 /\ Len(cal.subcomponents) <= event_count)

\* three records merged into a fresh calendar, two of them alike: 2 events
C1_Witness ==
    /\ pc = "rows"
    /\ ~file0.exists
    /\ event_count = 3
    /\ Len(cal.subcomponents) = 2

\* C2: a step of a run either leaves the accumulator as it is, or appends
\* the event built from the record just yielded after all the events already
\* there; a record whose identity a UID-carrying event already has leaves it
\* as it is; so the loaded events stay the first ones, unchanged and in order.
C2_Step ==
    (HasLoaded /\ pc' # "fetch") =>
        /\ \/ cal' = cal
           \/ /\ Merged
              /\ cal'.version = cal.version
              /\ cal'.prodid = cal.prodid
              /\ Len(cal'.subcomponents) = Len(cal.subcomponents) + 1
              /\ IsPrefix(cal.subcomponents, cal'.subcomponents)
              /\ Identity(cal'.subcomponents[Len(cal'.subcomponents)])
                    = <<rec'.date, rec'.description>>
        /\ (Merged /\ Known(cal, rec')) => cal' = cal
        /\ IsPrefix(Loaded.subcomponents, cal'.subcomponents)

C2_AppendOnly == [][C2_Step]_vars

\* a loaded calendar with an event, one new event appended behind it and one
\* record discarded
C2_Witness ==
    /\ pc = "rows"
    /\ Len(Loaded.subcomponents) >= 1
    /\ Len(cal.subcomponents) = Len(Loaded.subcomponents) + 1
    /\ event_count = 2

\* an event of c whose stored UID is not the uid of its date and summary
Drifted(e) ==
    e.has_uid /\ e.UID # sha256_hexdigest(isoformat(e.DTSTART) \o e.SUMMARY)

\* C3: for a stored event whose UID field differs from the uid of its start
\* date and summary, get_event_uid gives the recomputed uid, and merging a
\* freshly built event of the same (date, description) inserts nothing and
\* does not abort.
C3_Step ==
    /\ \A i \in 1..Len(cal.subcomponents) :
          Drifted(cal.subcomponents[i]) =>
             /\ get_event_uid(cal.subcomponents[i]) # cal.subcomponents[i].UID
             /\ get_event_uid(cal.subcomponents[i]) =
                   sha256_hexdigest(isoformat(cal.subcomponents[i].DTSTART)
                                    \o cal.subcomponents[i].SUMMARY)
    /\ (/\ Merged
        /\ \E i \in 1..Len(cal.subcomponents) :
              /\ Drifted(cal.subcomponents[i])
              /\ Identity(cal.subcomponents[i]) = <<rec'.date, rec'.description>>)
       => (cal' = cal /\ pc' = "rows" /\ status' = <<>>)

C3_RecomputedUidWins == [][C3_Step]_vars

\* the first record of a run has the identity of the one, drifted, stored
\* event and was not inserted
C3_Witness ==
    /\ pc = "rows"
    /\ event_count = 1
    /\ Len(cal.subcomponents) = 1
    /\ Drifted(cal.subcomponents[1])
    /\ Identity(cal.subcomponents[1]) = <<rec.date, rec.description>>

\* C4: events built from one (date, description) with two stamps have one
\* identity, so a record that an event of the calendar already stands for,
\* written with another stamp by an earlier run, is not inserted.
C4_Step ==
    /\ Merged =>
          \A s \in Stamps :
             get_event_uid(make_event(rec'.date, rec'.description, s))
                = get_event_uid(make_event(rec'.date, rec'.description, dtstamp))
    /\ (/\ Merged
        /\ \E i \in 1..Len(cal.subcomponents) :
              /\ cal.subcomponents[i].has_uid
              /\ cal.subcomponents[i].DTSTAMP # dtstamp
              /\ Identity(cal.subcomponents[i]) = <<rec'.date, rec'.description>>)
       => cal' = cal

C4_StampIndependent == [][C4_Step]_vars

\* a run stamped 1 on the file an earlier run stamped 2 wrote (the events on
\* file before the first run are stamped 1): the record is not inserted
C4_Witness ==
    /\ pc = "rows"
    /\ dtstamp = 1
    /\ event_count >= 1
    /\ cal = Loaded
    /\ \E i \in 1..Len(cal.subcomponents) :
          /\ cal.subcomponents[i].DTSTAMP = 2
          /\ cal.subcomponents[i].UID = make_uid(rec.date, rec.description)
          /\ Identity(cal.subcomponents[i]) = <<rec.date, rec.description>>

\* C5, as stated: the call gives True exactly when the event was inserted and
\* False when it was discarded.
C5_ReturnsWhetherInserted ==
    [][Merged => ret' = (IF cal' # cal THEN "True" ELSE "False")]_vars

\* C5, amended: the call gives None whether the event was inserted or
\* discarded; the insertion shows only in the calendar, which grows by the
\* event exactly when no UID-carrying event had its identity.
C5_ReturnsNone ==
    [][Merged =>
         /\ ret' = "None"
         /\ (cal' # cal) <=> ~Known(cal, rec')
         /\ cal' # cal => Len(cal'.subcomponents) = Len(cal.subcomponents) + 1]_vars

\* one event inserted and one discarded, None after the calls
C5_Witness ==
    /\ pc = "rows"
    /\ ret = "None"
    /\ event_count = 2
    /\ Len(cal.subcomponents) = Len(Loaded.subcomponents) + 1

\* C6: a run that reaches the end returns by the number of records the
\* extraction yielded: SUCCESS with one or more, whether or not any was
\* inserted, and ERROR_NO_EVENTS with none, a code that is none of SUCCESS,
\* ERROR_GET_PAGE_FAILED, ERROR_PARSE_FAILED and ERROR_UNKNOWN.
C6_Step ==
    /\ pc = "finish" =>
          /\ pc' = "exit"
          /\ event_count >= 1 => status' = <<SUCCESS>>
          /\ event_count = 0 => status' = <<ERROR_NO_EVENTS>>
    /\ (pc' = "exit" /\ status' = <<ERROR_NO_EVENTS>>) => (pc = "finish" /\ event_count = 0)
    /\ ERROR_NO_EVENTS \notin {SUCCESS, ERROR_GET_PAGE_FAILED, ERROR_PARSE_FAILED, ERROR_UNKNOWN}

C6_StatusByRecordCount == [][C6_Step]_vars

\* success of a run whose records were all on file already: nothing inserted
C6_Witness ==
    /\ pc = "exit"
    /\ status = <<SUCCESS>>
    /\ event_count >= 2
    /\ cal = Loaded

\* the codes of a run that ended before the write step
Fatal == {<<ERROR_GET_PAGE_FAILED>>, <<ERROR_PARSE_FAILED>>, <<ERROR_UNKNOWN>>}

\* C7: the file is as the run found it, and was not opened for writing, until
\* the loop has completed, and still so at the end of a run that was a dry
\* run or ended on a fatal condition; no run writes it more than once.
C7_FileUntouched ==
    /\ writes <= 1
    /\ pc # "exit" => (file = file0 /\ writes = 0)
    /\ (pc = "exit" /\ (args.dry_run \/ status \in Fatal)) => (file = file0 /\ writes = 0)
    /\ writes = 1 => (pc = "exit" /\ ~args.dry_run /\ status \in {<<SUCCESS>>, <<ERROR_NO_EVENTS>>}
                      /\ file = [exists |-> TRUE, cal |-> cal])

\* a run that had inserted an event when a row raised: nothing written
C7_Witness ==
    /\ pc = "exit"
    /\ status = <<ERROR_UNKNOWN>>
    /\ Len(cal.subcomponents) > Len(Loaded.subcomponents)
    /\ file = file0
    /\ writes = 0

\* a day specifier that is neither "<month> <day>, <year>" nor "<month> <day>"
UnparseableDay(day) ==
    ~ \/ /\ day.form = "MDY"
         /\ YearNumber(day.yr) # 0
         /\ ValidDate(YearNumber(day.yr), MonthNumber(day.month), day.day)
      \/ /\ day.form = "MD"
         /\ \E y \in {2024, 2025} : ValidDate(y, MonthNumber(day.month), day.day)

WrongCellCount(r) == r.cells # 4
UnrecognizedNonDated(r) ==
    r.cells = 4 /\ r.day.form = "dash" /\ r.description # "Personal Holiday"
UnparseableDated(r) ==
    r.cells = 4 /\ r.day.form # "dash" /\ UnparseableDay(r.day)

\* this step consumed a table row (row')
ReadRow == ri' = ri + 1

\* the row was skipped and the extraction goes on
Skipped == pc' = "rows" /\ status' = <<>> /\ UNCHANGED loopvars

\* C8, as stated: a row with a wrong cell count, with a day specifier that
\* parses under neither format, or an unrecognized non-dated row is skipped
\* and the extraction continues.
C8_MalformedRowsSkipped ==
    [][(ReadRow /\ (WrongCellCount(row') \/ UnrecognizedNonDated(row') \/ UnparseableDated(row')))
          => Skipped]_vars

\* C8, amended: a row with a wrong cell count and an unrecognized non-dated
\* row are skipped and the extraction continues; a four-cell row whose day
\* specifier parses under neither format is not skipped: the ValueError of the
\* second strptime ends the extraction and the run (ERROR_UNKNOWN), with no
\* record yielded for the row, none for a later row, and the file not written.
C8_Step ==
    /\ (ReadRow /\ (WrongCellCount(row') \/ UnrecognizedNonDated(row'))) => Skipped
    /\ (ReadRow /\ UnparseableDated(row')) =>
          /\ pc' = "exit"
          /\ status' = <<ERROR_UNKNOWN>>
          /\ UNCHANGED loopvars
          /\ file' = file
    /\ (pc = "exit" /\ status = <<ERROR_UNKNOWN>>) => (ri' = 0 /\ event_count' = 0 /\ file' = file)

C8_MalformedRows == [][C8_Step]_vars

\* a record was yielded, then a row with an unparseable day ended the run
C8_Witness ==
    /\ pc = "exit"
    /\ status = <<ERROR_UNKNOWN>>
    /\ UnparseableDated(row)
    /\ ri >= 2
    /\ event_count >= 1

\* a heading text that is not the prefix followed by a four-digit year
UnparseableHeading(text) ==
    text.lead # Prefix \/ text.tail \notin {"2024", "2025"}

\* C9: a heading whose text gives no parseable year never aborts the
\* extraction; its section is skipped (no row of it is read, nothing is
\* yielded for it) and the headings after it are still processed.
C9_UnparseableHeadingSkipped ==
    [][(hi' = hi + 1 /\ UnparseableHeading(h'))
          => (pc' = "headers" /\ status' = <<>> /\ UNCHANGED loopvars)]_vars

\* the date of a well-formed dated row: in the year the specifier gives, else
\* in the section's year
ExpectedDate(yr, day) ==
    [y |-> IF day.form = "MDY" THEN YearNumber(day.yr) ELSE YearNumber(yr),
     m |-> MonthNumber(day.month),
     d |-> day.day]

\* C10: every well-formed dated row (four cells, a day specifier not starting
\* with '-' that is a date) yields one record as it is read, so in table and
\* document order, with the row's description and the date of its specifier,
\* in the section's year unless the specifier gives a year; every other row
\* that is read and does not end the run yields nothing; so the records
\* yielded number the well-formed dated rows read.
C10_Step ==
    /\ ReadRow =>
          IF WellFormedDated(year, row')
          THEN /\ event_count' = event_count + 1
               /\ rec' = [date |-> ExpectedDate(year, row'.day),
                          description |-> row'.description]
               /\ pc' = "rows"
          ELSE /\ event_count' = event_count
               /\ rec' = rec
    /\ ~ReadRow => (event_count' = event_count \/ pc' = "fetch")
    /\ event_count' = dated'

====
